---- MODULE Spec2Model ----
(***************************************************************************)
(* Model of the tab export/import engine of the options page               *)
(* (TabExportImport, src/unnamed/part_006): the importTabs callback, the   *)
(* import settings it is rendered with, and the chrome host calls it       *)
(* awaits.  One action per resumption of the async function: everything    *)
(* the code runs between two awaits is one atomic step.                    *)
(***************************************************************************)
EXTENDS Integers, Sequences, FiniteSets, TLC

(* ------------------------------ bounds --------------------------------- *)

\* Longest `tabs` array of an imported file.
MaxTabs == 3
\* windowId values of a file's tabs are 1..MaxWindows.
MaxWindows == 2
\* `index` values of a file's tabs are 0..MaxIndex.
MaxIndex == 1
\* Group ids of a file are 1..MaxGroups; `groups` holds at most MaxGroups entries.
MaxGroups == 1
\* Host calls that may reject during one import.
MaxFailures == 1
\* useState(10) at part_006:50, scaled down so that a partition of MaxTabs
\* tabs spans more than one batch.
InitialBatchSize == 2
\* Values the Batch Size input is set to are 0..MaxBatchInput (0: the
\* field was cleared, Number('') is 0).
MaxBatchInput == 3
\* File selections of one session.
MaxImports == 2
\* Host reads that may reject during one export.
MaxReadFailures == 2

(* ------------------------------ the file ------------------------------- *)

WindowIds == 1..MaxWindows
Indexes == 0..MaxIndex
GroupIds == 1..MaxGroups
\* groupId = -1 is the ungrouped sentinel.
Ungrouped == -1

\* The url of an entry: a page address, or none (the field is missing, so
\* tab.url is undefined).
NoUrl == "undefined"
Urls == {"https://a.example", NoUrl}

ExportedTab == [url : Urls, windowId : WindowIds, index : Indexes,
                groupId : GroupIds \cup {Ungrouped}, muted : BOOLEAN]

\* The groupId of an entry that has none: it reads as undefined, which is
\* not -1 and is the id of no group.
NoGroupId == 0

\* Entries of a file that was not written by exportTabs: the groupId may be
\* missing.
LooseTab == [url : Urls, windowId : WindowIds, index : Indexes,
             groupId : GroupIds \cup {Ungrouped, NoGroupId}, muted : BOOLEAN]

SeqsUpTo(S, n) == UNION {[1..k -> S] : k \in 0..n}

\* What file.text() + JSON.parse deliver: a text that does not parse, an
\* object without `tabs`, one whose `tabs` is no array, or an export.
Formats == {"unparseable", "noTabs", "tabsNotArray", "noGroups", "ok"}

ExportData == [format : Formats, tabs : SeqsUpTo(ExportedTab, MaxTabs),
               groups : SeqsUpTo(GroupIds, MaxGroups)]

(* ------------------------------ the host ------------------------------- *)

\* A groupId the host leaves out (undefined) or reports as 0: falsy in
\* `tab.groupId || -1`.
Falsy == 0

\* A tab as chrome.tabs.query reports it: a grouped tab carries its
\* group's id, an ungrouped one -1, and a host without tab groups no
\* groupId at all.
HostTab == [windowId : WindowIds, groupId : GroupIds \cup {Ungrouped, Falsy}]

\* No snapshot has been handed to the download.
NoFile == [tabs |-> <<>>, groups |-> <<>>, windows |-> <<>>, made |-> FALSE]

(* --------------------------- pure functions ---------------------------- *)

Min(a, b) == IF a < b THEN a ELSE b

\* Faulty variant: the Array.isArray test is missing, any present `tabs`
\* passes.
ValidFormat_NoArrayCheck(data) ==
    data.format \in {"ok", "noGroups", "tabsNotArray"}

\* if (!data.tabs || !Array.isArray(data.tabs)) throw ...
ValidFormat(data) == data.format \in {"ok", "noGroups"}

\* data.groups is an array ("noGroups": the file has `tabs` and no `groups`).
HasGroups(data) == data.format # "noGroups"

\* Keys of tabsByWindow in Map insertion order: the windowId of each tab
\* that is the first of its window, in file order.
RECURSIVE KeysFrom(_, _, _)
KeysFrom(tabs, k, acc) ==
    IF k > Len(tabs) THEN acc
    ELSE IF \E j \in 1..Len(acc) : acc[j] = tabs[k].windowId
         THEN KeysFrom(tabs, k + 1, acc)
         ELSE KeysFrom(tabs, k + 1, Append(acc, tabs[k].windowId))

WindowKeys(tabs) == KeysFrom(tabs, 1, <<>>)

\* tabsByWindow.get(wid): the positions (in data.tabs) of the tabs of
\* window wid, in file order.
RECURSIVE PositionsFrom(_, _, _)
PositionsFrom(tabs, wid, k) ==
    IF k > Len(tabs) THEN <<>>
    ELSE IF tabs[k].windowId = wid
         THEN <<k>> \o PositionsFrom(tabs, wid, k + 1)
         ELSE PositionsFrom(tabs, wid, k + 1)

TabsByWindow(tabs, wid) ==
    CHOOSE r \in {PositionsFrom(tabs, v, 1) : v \in {wid}} : TRUE

\* Insert position p into the sorted sequence s, after every element whose
\* index is not greater (a stable sort).
RECURSIVE InsertByIndex(_, _, _)
InsertByIndex(tabs, s, p) ==
    IF s = <<>> THEN <<p>>
    ELSE IF tabs[Head(s)].index <= tabs[p].index
         THEN <<Head(s)>> \o InsertByIndex(tabs, Tail(s), p)
         ELSE <<p>> \o s

RECURSIVE SortFrom(_, _, _, _)
SortFrom(tabs, s, k, acc) ==
    IF k > Len(s) THEN acc
    ELSE \* the accumulator is bound as a value, so that it is evaluated once
         CHOOSE r \in {SortFrom(tabs, s, k + 1, a) :
                         a \in {InsertByIndex(tabs, acc, s[k])}} : TRUE

\* Faulty variant: the sort is left out, the tabs stay in file order.
SortByIndex_FileOrder(tabs, s) == s

\* windowTabs.sort((a, b) => a.index - b.index)
SortByIndex(tabs, s) ==
    CHOOSE r \in {SortFrom(tabs, v, 1, <<>>) : v \in {s}} : TRUE

\* windowTabs of the w-th partition, after the sort.
WindowTabs(data, w) ==
    SortByIndex(data.tabs, TabsByWindow(data.tabs, WindowKeys(data.tabs)[w]))

\* Faulty variant: the filter is dropped, every group of the file is
\* recreated in every partition.
WindowGroups_All(data, w) == data.groups

\* data.groups.filter(g => windowTabs.some(t => t.groupId === g.id))
WindowGroups(data, w) ==
    LET wt == WindowTabs(data, w)
    IN  SelectSeq(data.groups,
                  LAMBDA g : \E j \in 1..Len(wt) : data.tabs[wt[j]].groupId = g)

\* Faulty variant: the slice is one tab too long.
Slice_OneMore(s, i, size) == SubSeq(s, i + 1, Min(Len(s), i + size + 1))

\* windowTabs.slice(i, i + size)
Slice(s, i, size) == SubSeq(s, i + 1, Min(Len(s), i + size))

(* ------------------------------- state --------------------------------- *)

VARIABLES
    data,            \* the parsed content of the selected file
    groupsApi,       \* chrome.tabGroups is present, with query() and update()
    importsLeft,     \* file selections the user has yet to make
    batchSize,       \* useState(10): the Batch Size setting
    batchDelay,      \* useState(100): the Delay (ms) setting
    isImporting,     \* useState(false)
    importProgress,  \* useState(null): NoProgress or [current, total]
    statusMessage,   \* useState(''): [kind, n]
    pc,              \* the await importTabs is suspended at
    w,               \* number of the partition being processed (1-based)
    targetWindowId,  \* let targetWindowId
    gi,              \* position in windowGroups of the group being recreated
    newGroupId,      \* const newGroupId
    i,               \* let i of the batch loop
    groupIdMap,      \* const groupIdMap = new Map()
    importedCount,   \* let importedCount
    pipe,            \* per tab of data.tabs: where its async callback stands
    timer,           \* the delay handed to setTimeout, while it runs
    hostWindows,     \* windows the host has created for this import
    hostGroups,      \* groups the host has created for this import
    tempTabs,        \* host: per placeholder tab created, [open, group]
    tabWindow,       \* host: per tab of data.tabs, the window its new tab is in
    groupWindow,     \* host: per new group id, the window the group is in
    faults,          \* host calls that may still reject
    createCalls,     \* history: chrome.tabs.create calls in issue order
    winCreateCalls,  \* history: the options of each chrome.windows.create call
    targets,         \* history: target window of each partition processed
    batches,         \* history: batches started
    batchOf,         \* history: per tab, the number of its batch
    delays,          \* history: batch timers that have fired
    groupStarts,     \* history: per group id, recreation sequences started
    groupFails,      \* history: per group id, sequences failed before the map write
    groupFailSteps,  \* history: per group id, the calls of its sequences that rejected
    hostTabs,        \* host: the open tabs, as chrome.tabs.query({}) reports them
    isExporting,     \* useState(false)
    exportPc,        \* the await exportTabs is suspended at
    queriedTabs,     \* const tabs of exportTabs
    queriedGroups,   \* let groups of exportTabs
    groupsRead,      \* history: chrome.tabGroups.query has resolved
    readFails,       \* history: the host reads of exportTabs that rejected
    exportData       \* const exportData: the snapshot handed to the download

vars == <<data, groupsApi, importsLeft, batchSize, batchDelay, isImporting, importProgress,
          statusMessage, pc, w, targetWindowId, gi, newGroupId, i, groupIdMap,
          importedCount, pipe, timer, hostWindows, hostGroups, tempTabs,
          tabWindow, groupWindow, faults, createCalls, winCreateCalls, targets, batches,
          batchOf, delays, groupStarts, groupFails, groupFailSteps, hostTabs,
          isExporting, exportPc, queriedTabs, queriedGroups, groupsRead,
          readFails, exportData>>

\* useState(100) at part_006:51.
InitialBatchDelay == 100

NoProgress == [current |-> -1, total |-> -1]
NoStatus == [kind |-> "none", n |-> 0]
ErrorStatus == [kind |-> "error", n |-> 0]
OkStatus(n) == [kind |-> "ok", n |-> n]
NoTimer == -1
\* tabWindow of a tab the host has not created.
NoWindow == -1
\* The window chrome.windows.getCurrent() answers with; created windows
\* get the ids 1, 2, ...
CurrentWindow == 0
\* The entry of createCalls for a placeholder ('about:blank') tab.
Placeholder == 0

EmptyMap == [g \in {} |-> 0]
Tabs == 1..Len(data.tabs)

\* Faulty variant: the tabs still to come are reported instead of the tabs
\* imported.
Progress_Remaining(n) ==
    [current |-> Len(data.tabs) - n, total |-> Len(data.tabs)]

\* setImportProgress({ current: n, total: data.tabs.length })
Progress(n) == [current |-> n, total |-> Len(data.tabs)]

\* Faulty variant: importTabs is rebuilt at every render and reads the
\* setting of the moment.
CapturedBatchSize_Setting == batchSize

\* The closure importTabs runs in is the first render's: the dependency
\* list of its useCallback is empty, so it is never rebuilt.
CapturedBatchSize == InitialBatchSize
CapturedBatchDelay == InitialBatchDelay

\* st: the await the callback stands at, or how it ended; grp: the groupId
\* handed to chrome.tabs.group (0: none); calls: the host calls it has
\* issued; fails: its calls that rejected.
PipeIdle == [st |-> "idle", grp |-> 0, calls |-> {}, fails |-> {}]
Settled(p) == p.st \in {"counted", "createFailed", "muteFailed"}

\* The batch being awaited: windowTabs.slice(i, i + batchSize).
CurBatch == Slice(WindowTabs(data, w), i, CapturedBatchSize)

\* A host call may reject while the failure budget lasts.
Outcomes == IF faults > 0 THEN BOOLEAN ELSE {TRUE}

\* The history counters `batches` and `delays` stop here; a batch holds a
\* tab at least, so no import counts this far.
MaxBatches == MaxTabs + 1

(* ---------------------------- control flow ----------------------------- *)

\* Faulty variant: no partition passes the first-window test.
IsFirstWindow_Never(d, k) == FALSE

\* oldWindowId === Array.from(tabsByWindow.keys())[0]
IsFirstWindow(d, k) == WindowKeys(d.tabs)[k] = WindowKeys(d.tabs)[1]

\* Faulty variant: the has() test is dropped, a mapped group is recreated.
NeedsGroup_Always(map, g) == TRUE

\* if (!groupIdMap.has(group.id))
NeedsGroup(map, g) == g \notin DOMAIN map

\* The first position >= from of wg whose group is to be recreated, or 0.
NextGroup(wg, from, map) ==
    LET c == {j \in from..Len(wg) : NeedsGroup(map, wg[j])}
    IN  IF c = {} THEN 0 ELSE CHOOSE j \in c : \A k \in c : j <= k

\* for (const [oldWindowId, windowTabs] of tabsByWindow): partition k is
\* entered by the window call it awaits, or the loop is over.
WindowAt(k) ==
    IF k <= Len(WindowKeys(data.tabs))
    THEN [pc |-> IF IsFirstWindow(data, k) THEN "getCurrent" ELSE "createWindow",
          w |-> k, gi |-> 0, i |-> 0]
    ELSE [pc |-> "done", w |-> k, gi |-> 0, i |-> 0]

\* Faulty variant: an off-by-one in the loop test, i < windowTabs.length - 1.
BatchAt_SkipLast(k, off) ==
    IF off < Len(WindowTabs(data, k)) - 1
    THEN [pc |-> "batch", w |-> k, gi |-> 0, i |-> off]
    ELSE WindowAt(k + 1)

\* for (let i = 0; i < windowTabs.length; i += batchSize)
BatchAt(k, off) ==
    IF off < Len(WindowTabs(data, k))
    THEN [pc |-> "batch", w |-> k, gi |-> 0, i |-> off]
    ELSE WindowAt(k + 1)

\* Faulty variant: the batch loop is entered without the group loop.
GroupLoop_Skipped(k, from, map) == BatchAt(k, 0)

\* Faulty variant: a file without `groups` is read as one with no group.
GroupLoop_Lenient(k, from, map) ==
    LET j == IF groupsApi /\ HasGroups(data)
             THEN NextGroup(WindowGroups(data, k), from, map) ELSE 0
    IN  IF j # 0 THEN [pc |-> "gCreate", w |-> k, gi |-> j, i |-> 0]
        ELSE BatchAt(k, 0)

\* for (const group of windowGroups), from position `from` on, under the
\* chrome.tabGroups test; then the batch loop.  data.groups.filter throws
\* when the file has no `groups`.
GroupLoop(k, from, map) ==
    IF groupsApi /\ ~HasGroups(data)
    THEN [pc |-> "throw", w |-> k, gi |-> 0, i |-> 0]
    ELSE
    LET j == IF groupsApi THEN NextGroup(WindowGroups(data, k), from, map) ELSE 0
    IN  IF j # 0 THEN [pc |-> "gCreate", w |-> k, gi |-> j, i |-> 0]
        ELSE BatchAt(k, 0)

\* Faulty variant: the finally block clears isImporting only.
Finish_KeepProgress(status) ==
    /\ pc' = "done"
    /\ statusMessage' = status
    /\ isImporting' = FALSE
    /\ UNCHANGED <<w, gi, i, createCalls, winCreateCalls, pipe, batches,
                   batchOf, groupStarts, importProgress>>

\* The import ends: the status of the try or the catch block, then finally.
Finish(status) ==
    /\ pc' = "done"
    /\ statusMessage' = status
    /\ isImporting' = FALSE
    /\ importProgress' = NoProgress
    /\ UNCHANGED <<w, gi, i, createCalls, winCreateCalls, pipe, batches,
                   batchOf, groupStarts>>

\* importTabs runs on to the await `c` names and issues that call.
Goto(c, progress) ==
    \E t \in {c} :
    IF t.pc = "done" THEN Finish(OkStatus(importedCount))
    ELSE IF t.pc = "throw" THEN Finish(ErrorStatus)
    ELSE
    /\ pc' = t.pc
    /\ w' = t.w
    /\ gi' = t.gi
    /\ i' = t.i
    /\ importProgress' = progress
    /\ UNCHANGED <<statusMessage, isImporting>>
    /\ winCreateCalls' = IF t.pc = "createWindow"
                         THEN Append(winCreateCalls, [focused |-> FALSE])
                         ELSE winCreateCalls
    /\ groupStarts' = IF t.pc = "gCreate"
                      THEN LET g == WindowGroups(data, t.w)[t.gi]
                           IN  [groupStarts EXCEPT ![g] = @ + 1]
                      ELSE groupStarts
    /\ \E b \in {IF t.pc = "batch"
                  THEN Slice(WindowTabs(data, t.w), t.i, CapturedBatchSize)
                  ELSE <<>>} :
       LET inB(u) == \E j \in 1..Len(b) : b[j] = u
       IN  /\ createCalls' = IF t.pc = "gCreate"
                             THEN Append(createCalls, Placeholder)
                             ELSE createCalls \o b
           /\ pipe' = [u \in Tabs |->
                          IF inB(u)
                          THEN [st |-> "create", grp |-> 0,
                                calls |-> {"create"}, fails |-> {}]
                          ELSE pipe[u]]
           /\ batchOf' = [u \in Tabs |->
                          IF inB(u) THEN batches + 1 ELSE batchOf[u]]
           /\ batches' = IF t.pc = "batch" THEN Min(batches + 1, MaxBatches)
                         ELSE batches

(* ------------------------------- actions ------------------------------- *)

\* Files whose tabs all carry index 0 (no sort needed).
FlatIndex(d) == \A k \in 1..Len(d.tabs) : d.tabs[k].index = 0

\* Files every entry of which has a url.
WithUrls(d) == \A k \in 1..Len(d.tabs) : d.tabs[k].url # NoUrl

\* A tab with nothing to restore but its window.
PlainTab(t) == t.index = 0 /\ t.groupId = Ungrouped /\ ~t.muted

\* The exports with at most MaxTabs entries drawn from T.
FilesOf(formats, T) ==
    [format : formats, tabs : SeqsUpTo(T, MaxTabs),
     groups : SeqsUpTo(GroupIds, MaxGroups)]

OkFiles == FilesOf({"ok"}, {t \in ExportedTab : t.url # NoUrl})

\* Files the format test is to reject.  An unparseable text or an object
\* without `tabs` has no entries; a non-array `tabs` value may hold some.
BadFiles ==
    {d \in FilesOf(Formats \ {"ok", "noGroups"},
                   {t \in ExportedTab : PlainTab(t)}) :
        /\ d.format # "tabsNotArray" => d.tabs = <<>>
        /\ WithUrls(d)}

\* The files of Spec: every export whose tabs are in index order already,
\* and the malformed files.
Files == {d \in OkFiles : FlatIndex(d)} \cup BadFiles

\* The files of SpecOrder: every export, in any index order.
OrderFiles == OkFiles

\* The files of SpecSettings.
SettingsFiles == {d \in OkFiles : FlatIndex(d)}

\* The files of SpecGroups: entries with a url, in index order, any of
\* which may lack its groupId; and files that lack `groups`.
GroupFiles ==
    FilesOf({"ok"}, {t \in LooseTab : t.index = 0 /\ t.url # NoUrl})
    \cup {d \in FilesOf({"noGroups"},
                        {t \in ExportedTab : t.index = 0 /\ t.url # NoUrl}) :
            d.groups = <<>>}

\* The files of SpecLive: exports in index order whose tabs are listed
\* window by window and are muted only when ungrouped.
LiveFiles ==
    {d \in OkFiles :
        /\ FlatIndex(d)
        /\ \A k \in 1..Len(d.tabs) :
            /\ d.tabs[k].muted => d.tabs[k].groupId = Ungrouped
            /\ k > 1 => d.tabs[k - 1].windowId <= d.tabs[k].windowId}

\* The files of SpecRerun.
RerunFiles == {d \in OkFiles : FlatIndex(d)}

\* The files of SpecUrl: exports in index order, any entry of which may
\* lack its url.
UrlFiles == FilesOf({"ok"}, {t \in ExportedTab : t.index = 0})

\* The state after the first render, with a file to pick, a failure
\* budget, and the tabs open on the host.
InitHost(files, budget, inventories, imports) ==
    /\ importsLeft = imports
    /\ hostTabs \in inventories
    /\ isExporting = FALSE
    /\ exportPc = "idle"
    /\ queriedTabs = <<>>
    /\ queriedGroups = <<>>
    /\ groupsRead = FALSE
    /\ readFails = {}
    /\ exportData = NoFile
    /\ data \in files
    /\ groupsApi \in BOOLEAN
    /\ batchSize = InitialBatchSize
    /\ batchDelay = InitialBatchDelay
    /\ isImporting = FALSE
    /\ importProgress = NoProgress
    /\ statusMessage = NoStatus
    /\ pc = "idle"
    /\ w = 0
    /\ targetWindowId = -1
    /\ gi = 0
    /\ newGroupId = 0
    /\ i = 0
    /\ groupIdMap = EmptyMap
    /\ importedCount = 0
    /\ pipe = [t \in Tabs |-> PipeIdle]
    /\ timer = NoTimer
    /\ hostWindows = 0
    /\ hostGroups = 0
    /\ tempTabs = <<>>
    /\ tabWindow = [t \in Tabs |-> NoWindow]
    /\ groupWindow = <<>>
    /\ faults = budget
    /\ createCalls = <<>>
    /\ winCreateCalls = <<>>
    /\ targets = <<>>
    /\ batches = 0
    /\ batchOf = [t \in Tabs |-> 0]
    /\ delays = 0
    /\ groupStarts = [g \in GroupIds |-> 0]
    /\ groupFails = [g \in GroupIds |-> 0]
    /\ groupFailSteps = [g \in GroupIds |-> {}]

InitWith(files, budget) == InitHost(files, budget, {<<>>}, 1)

inputs == <<data, groupsApi, importsLeft>>
exportState == <<hostTabs, isExporting, exportPc, queriedTabs, queriedGroups,
                 groupsRead, readFails, exportData>>
settings == <<batchSize, batchDelay>>
host == <<hostWindows, hostGroups, tempTabs>>
placement == <<tabWindow, groupWindow>>
flow == <<pc, w, gi, i, createCalls, winCreateCalls, pipe, batches, batchOf,
          groupStarts, statusMessage, isImporting, importProgress>>

\* onChange of the Batch Size input (disabled while importing):
\* setBatchSize(Number(e.target.value)); min="1" does not stop the user
\* from clearing the field or typing 0.
SetBatchSize ==
    /\ ~isImporting
    /\ \E v \in 0..MaxBatchInput : batchSize' = v
    /\ UNCHANGED <<inputs, exportState, batchDelay, flow, targetWindowId, newGroupId,
                   groupIdMap, importedCount, timer, host, faults, targets,
                   delays, groupFails, groupFailSteps, placement>>

\* onChange of the Delay input (disabled while importing).
SetBatchDelay ==
    /\ ~isImporting
    /\ \E v \in {0, InitialBatchDelay} : batchDelay' = v
    /\ UNCHANGED <<inputs, exportState, batchSize, flow, targetWindowId, newGroupId,
                   groupIdMap, importedCount, timer, host, faults, targets,
                   delays, groupFails, groupFailSteps, placement>>

\* Faulty variant: the file input stays enabled while an import runs.
HandleFileSelect_Enabled ==
    /\ pc # "readFile"
    /\ isImporting' = TRUE
    /\ statusMessage' = NoStatus
    /\ importProgress' = NoProgress
    /\ pc' = "readFile"
    /\ w' = 0
    /\ gi' = 0
    /\ i' = 0
    /\ targetWindowId' = -1
    /\ newGroupId' = 0
    /\ groupIdMap' = EmptyMap
    /\ importedCount' = 0
    /\ pipe' = [t \in Tabs |-> PipeIdle]
    /\ timer' = NoTimer
    /\ hostWindows' = 0
    /\ hostGroups' = 0
    /\ tempTabs' = <<>>
    /\ tabWindow' = [t \in Tabs |-> NoWindow]
    /\ groupWindow' = <<>>
    /\ createCalls' = <<>>
    /\ winCreateCalls' = <<>>
    /\ targets' = <<>>
    /\ batches' = 0
    /\ batchOf' = [t \in Tabs |-> 0]
    /\ delays' = 0
    /\ groupStarts' = [g \in GroupIds |-> 0]
    /\ groupFails' = [g \in GroupIds |-> 0]
    /\ groupFailSteps' = [g \in GroupIds |-> {}]
    /\ importsLeft > 0
    /\ importsLeft' = importsLeft - 1
    /\ UNCHANGED <<data, groupsApi, exportState, settings, faults>>

\* handleFileSelect -> importTabs(file), up to `await file.text()`.  The
\* file input is disabled while importing and is reset after a selection,
\* so the same file can be selected again once the run has ended.  A call
\* of importTabs has locals of its own; the host's and the model's records
\* are kept per run.
HandleFileSelect ==
    /\ ~isImporting
    /\ pc \in {"idle", "done"}
    /\ isImporting' = TRUE
    /\ statusMessage' = NoStatus
    /\ importProgress' = NoProgress
    /\ pc' = "readFile"
    /\ w' = 0
    /\ gi' = 0
    /\ i' = 0
    /\ targetWindowId' = -1
    /\ newGroupId' = 0
    /\ groupIdMap' = EmptyMap
    /\ importedCount' = 0
    /\ pipe' = [t \in Tabs |-> PipeIdle]
    /\ timer' = NoTimer
    /\ hostWindows' = 0
    /\ hostGroups' = 0
    /\ tempTabs' = <<>>
    /\ tabWindow' = [t \in Tabs |-> NoWindow]
    /\ groupWindow' = <<>>
    /\ createCalls' = <<>>
    /\ winCreateCalls' = <<>>
    /\ targets' = <<>>
    /\ batches' = 0
    /\ batchOf' = [t \in Tabs |-> 0]
    /\ delays' = 0
    /\ groupStarts' = [g \in GroupIds |-> 0]
    /\ groupFails' = [g \in GroupIds |-> 0]
    /\ groupFailSteps' = [g \in GroupIds |-> {}]
    /\ importsLeft > 0
    /\ importsLeft' = importsLeft - 1
    /\ UNCHANGED <<data, groupsApi, exportState, settings, faults>>

\* file.text() resolves: JSON.parse, the format test, the initial progress,
\* the partition, and the first partition's window call.
FileRead ==
    /\ pc = "readFile"
    /\ IF data.format = "unparseable" \/ ~ValidFormat(data)
       THEN Finish(ErrorStatus)
       ELSE Goto(WindowAt(1), Progress(0))
    /\ UNCHANGED <<inputs, exportState, settings, targetWindowId, newGroupId, groupIdMap,
                   importedCount, timer, host, faults, targets, delays,
                   groupFails, groupFailSteps, placement>>

\* chrome.windows.getCurrent() or chrome.windows.create() settles; on
\* success the group loop of the partition starts.  A rejection reaches
\* the outer catch.
WindowSettles ==
    /\ pc \in {"getCurrent", "createWindow"}
    /\ \E ok \in Outcomes :
        IF ok
        THEN LET id == IF pc = "getCurrent" THEN CurrentWindow
                       ELSE hostWindows + 1
             IN  /\ targetWindowId' = id
                 /\ hostWindows' = IF pc = "getCurrent" THEN hostWindows
                                   ELSE hostWindows + 1
                 /\ targets' = Append(targets, id)
                 /\ Goto(GroupLoop(w, 1, groupIdMap), importProgress)
                 /\ UNCHANGED faults
        ELSE /\ Finish(ErrorStatus)
             /\ faults' = faults - 1
             /\ UNCHANGED <<targetWindowId, hostWindows, targets>>
    /\ UNCHANGED <<inputs, exportState, settings, newGroupId, groupIdMap, importedCount,
                   timer, hostGroups, tempTabs, delays, groupFails,
                   groupFailSteps, placement>>

\* The group whose recreation sequence is running.
CurGroup == WindowGroups(data, w)[gi]

\* Faulty variant: the group sequence has no try of its own and a
\* rejection reaches the outer catch.
GroupCatch_Abort ==
    /\ faults' = faults - 1
    /\ Finish(ErrorStatus)

\* catch (error) { console.warn(`Error creating group ...`) }: on to the
\* next group of the loop.
GroupCatch ==
    /\ faults' = faults - 1
    /\ Goto(GroupLoop(w, gi + 1, groupIdMap), importProgress)

\* The placeholder's chrome.tabs.create settles.
GroupTabCreateSettles ==
    /\ pc = "gCreate"
    /\ \E ok \in Outcomes :
        IF ok
        THEN /\ pc' = "gGroup"
             /\ tempTabs' = Append(tempTabs, [open |-> TRUE, group |-> 0])
             /\ UNCHANGED <<w, gi, i, createCalls, winCreateCalls, pipe,
                            batches, batchOf, groupStarts, statusMessage,
                            isImporting, importProgress, faults, groupFails,
                            groupFailSteps>>
        ELSE /\ GroupCatch
             /\ groupFails' = [groupFails EXCEPT ![CurGroup] = @ + 1]
             /\ groupFailSteps' =
                    [groupFailSteps EXCEPT ![CurGroup] = @ \cup {"create"}]
             /\ UNCHANGED tempTabs
    /\ UNCHANGED <<inputs, exportState, settings, targetWindowId, newGroupId, groupIdMap,
                   importedCount, timer, hostWindows, hostGroups, targets,
                   delays, placement>>

\* chrome.tabs.group({ tabIds: tempTab.id }) settles: the host has made a
\* new group around the placeholder, in the placeholder's window.
GroupTabsGroupSettles ==
    /\ pc = "gGroup"
    /\ \E ok \in Outcomes :
        IF ok
        THEN /\ pc' = "gUpdate"
             /\ newGroupId' = hostGroups + 1
             /\ hostGroups' = hostGroups + 1
             /\ groupWindow' = Append(groupWindow, targetWindowId)
             /\ tempTabs' = [tempTabs EXCEPT ![Len(tempTabs)].group =
                                                hostGroups + 1]
             /\ UNCHANGED <<w, gi, i, createCalls, winCreateCalls, pipe,
                            batches, batchOf, groupStarts, statusMessage,
                            isImporting, importProgress, faults, groupFails,
                            groupFailSteps>>
        ELSE /\ GroupCatch
             /\ groupFails' = [groupFails EXCEPT ![CurGroup] = @ + 1]
             /\ groupFailSteps' =
                    [groupFailSteps EXCEPT ![CurGroup] = @ \cup {"group"}]
             /\ UNCHANGED <<newGroupId, hostGroups, groupWindow, tempTabs>>
    /\ UNCHANGED <<inputs, exportState, settings, targetWindowId, groupIdMap,
                   importedCount, timer, hostWindows, tabWindow, targets,
                   delays>>

\* Faulty variant: the placeholder is removed first and the mapping is not
\* stored by the time the remove is issued.
GroupUpdateSettles_RemoveFirst ==
    /\ pc = "gUpdate"
    /\ \E ok \in Outcomes :
        IF ok
        THEN /\ pc' = "gRemove"
             /\ UNCHANGED <<w, gi, i, createCalls, winCreateCalls, pipe,
                            batches, batchOf, groupStarts, statusMessage,
                            isImporting, importProgress, faults, groupFails,
                            groupFailSteps>>
        ELSE /\ GroupCatch
             /\ groupFails' = [groupFails EXCEPT ![CurGroup] = @ + 1]
             /\ groupFailSteps' =
                    [groupFailSteps EXCEPT ![CurGroup] = @ \cup {"update"}]
    /\ UNCHANGED <<inputs, exportState, settings, targetWindowId, newGroupId,
                   groupIdMap, importedCount, timer, host, targets, delays,
                   placement>>

\* chrome.tabGroups.update settles; on success groupIdMap.set and the
\* placeholder's chrome.tabs.remove is issued.
GroupUpdateSettles ==
    /\ pc = "gUpdate"
    /\ \E ok \in Outcomes :
        IF ok
        THEN /\ pc' = "gRemove"
             /\ groupIdMap' = [g \in DOMAIN groupIdMap \cup {CurGroup} |->
                                 IF g = CurGroup THEN newGroupId
                                 ELSE groupIdMap[g]]
             /\ UNCHANGED <<w, gi, i, createCalls, winCreateCalls, pipe,
                            batches, batchOf, groupStarts, statusMessage,
                            isImporting, importProgress, faults, groupFails,
                            groupFailSteps>>
        ELSE /\ GroupCatch
             /\ groupFails' = [groupFails EXCEPT ![CurGroup] = @ + 1]
             /\ groupFailSteps' =
                    [groupFailSteps EXCEPT ![CurGroup] = @ \cup {"update"}]
             /\ UNCHANGED groupIdMap
    /\ UNCHANGED <<inputs, exportState, settings, targetWindowId, newGroupId,
                   importedCount, timer, host, targets, delays, placement>>

\* Faulty variant: the removed placeholder is counted as an imported tab.
GroupRemoveSettles_Counted ==
    /\ pc = "gRemove"
    /\ \E ok \in Outcomes :
        IF ok
        THEN /\ Goto(GroupLoop(w, gi + 1, groupIdMap), importProgress)
             /\ tempTabs' = [tempTabs EXCEPT ![Len(tempTabs)].open = FALSE]
             /\ importedCount' = importedCount + 1
             /\ UNCHANGED <<faults, groupFailSteps>>
        ELSE /\ GroupCatch
             /\ groupFailSteps' =
                    [groupFailSteps EXCEPT ![CurGroup] = @ \cup {"remove"}]
             /\ UNCHANGED <<tempTabs, importedCount>>
    /\ UNCHANGED <<inputs, exportState, settings, targetWindowId, newGroupId, groupIdMap,
                   timer, hostWindows, hostGroups, targets, delays, groupFails,
                   placement>>

\* chrome.tabs.remove(tempTab.id) settles; either way the loop goes on.
GroupRemoveSettles ==
    /\ pc = "gRemove"
    /\ \E ok \in Outcomes :
        IF ok
        THEN /\ Goto(GroupLoop(w, gi + 1, groupIdMap), importProgress)
             /\ tempTabs' = [tempTabs EXCEPT ![Len(tempTabs)].open = FALSE]
             /\ UNCHANGED <<faults, groupFailSteps>>
        ELSE /\ GroupCatch
             /\ groupFailSteps' =
                    [groupFailSteps EXCEPT ![CurGroup] = @ \cup {"remove"}]
             /\ UNCHANGED tempTabs
    /\ UNCHANGED <<inputs, exportState, settings, targetWindowId, newGroupId, groupIdMap,
                   importedCount, timer, hostWindows, hostGroups, targets,
                   delays, groupFails, placement>>

(* Per-tab pipelines of a batch: batch.map(async tab => ...) has issued    *)
(* every chrome.tabs.create of the batch; each callback then resumes on    *)
(* its own.                                                                *)

pipeFrame == <<inputs, exportState, settings, pc, w, gi, i, createCalls, winCreateCalls,
               batches, batchOf, groupStarts, statusMessage, isImporting,
               targetWindowId, newGroupId, groupIdMap, timer, host, targets,
               delays, groupFails, groupFailSteps, groupWindow>>

Tab(t) == data.tabs[t]

\* After the group step: the mute update if the tab was muted, else discard.
AfterGroup(t) == IF Tab(t).muted THEN "mute" ELSE "discard"

\* if (tab.groupId !== -1 && groupIdMap.has(tab.groupId) && chrome.tabGroups)
WantsGroup(t) ==
    /\ Tab(t).groupId # Ungrouped
    /\ Tab(t).groupId \in DOMAIN groupIdMap
    /\ groupsApi

\* chrome.tabs.create of tab t settles.
TabCreateSettles(t) ==
    /\ pipe[t].st = "create"
    /\ \E ok \in Outcomes :
        /\ faults' = IF ok THEN faults ELSE faults - 1
        /\ pipe' = [pipe EXCEPT ![t] =
                     IF ~ok
                     THEN [st |-> "createFailed", grp |-> 0,
                           calls |-> {"create"}, fails |-> {"create"}]
                     ELSE IF WantsGroup(t)
                          THEN [st |-> "group", fails |-> {},
                                calls |-> {"create", "group"},
                                grp |-> groupIdMap[Tab(t).groupId]]
                          ELSE [st |-> AfterGroup(t), grp |-> 0, fails |-> {},
                                calls |-> {"create", AfterGroup(t)}]]
        /\ tabWindow' = IF ok THEN [tabWindow EXCEPT ![t] = targetWindowId]
                        ELSE tabWindow
    /\ UNCHANGED <<importedCount, importProgress>>
    /\ UNCHANGED pipeFrame

\* The tabs of data.tabs the host has put into the new group g.
RealMembers(g) ==
    {t \in Tabs : /\ pipe[t].grp = g
                  /\ pipe[t].st # "group"
                  /\ "group" \notin pipe[t].fails}

\* The open placeholders of the new group g.
TempMembers(g) ==
    {k \in DOMAIN tempTabs : tempTabs[k].open /\ tempTabs[k].group = g}

\* The new group g has no member tab.
GroupEmpty(g) == RealMembers(g) = {} /\ TempMembers(g) = {}

\* chrome.tabs.group({ tabIds, groupId }) of tab t settles: the tab is in
\* the group, so in the window the group is in.  A rejection is caught by
\* the inner try.  A group left without a member tab may be gone from the
\* host, and the call then rejects whatever the failure budget.
TabGroupSettles(t) ==
    /\ pipe[t].st = "group"
    /\ \E ok \in IF GroupEmpty(pipe[t].grp) THEN BOOLEAN ELSE Outcomes :
        /\ faults' = IF ok \/ GroupEmpty(pipe[t].grp) THEN faults
                      ELSE faults - 1
        /\ pipe' = [pipe EXCEPT ![t].st = AfterGroup(t),
                                 ![t].calls = @ \cup {AfterGroup(t)},
                                 ![t].fails = IF ok THEN @ ELSE @ \cup {"group"}]
        /\ tabWindow' = IF ok
                        THEN [tabWindow EXCEPT ![t] = groupWindow[pipe[t].grp]]
                        ELSE tabWindow
    /\ UNCHANGED <<importedCount, importProgress>>
    /\ UNCHANGED pipeFrame

\* Faulty variant: the mute update has a try of its own, like the group
\* and discard steps, and the callback goes on after a rejection.
TabMuteSettles_Caught(t) ==
    /\ pipe[t].st = "mute"
    /\ \E ok \in Outcomes :
        /\ faults' = IF ok THEN faults ELSE faults - 1
        /\ pipe' = [pipe EXCEPT ![t].st = "discard",
                                 ![t].calls = @ \cup {"discard"},
                                 ![t].fails = IF ok THEN @ ELSE @ \cup {"mute"}]
    /\ UNCHANGED <<importedCount, importProgress, tabWindow>>
    /\ UNCHANGED pipeFrame

\* chrome.tabs.update(id, { muted: true }) settles; a rejection reaches
\* the callback's outer catch.
TabMuteSettles(t) ==
    /\ pipe[t].st = "mute"
    /\ \E ok \in Outcomes :
        /\ faults' = IF ok THEN faults ELSE faults - 1
        /\ pipe' = [pipe EXCEPT ![t].st = IF ok THEN "discard" ELSE "muteFailed",
                                 ![t].calls = IF ok THEN @ \cup {"discard"} ELSE @,
                                 ![t].fails = IF ok THEN @ ELSE @ \cup {"mute"}]
    /\ UNCHANGED <<importedCount, importProgress, tabWindow>>
    /\ UNCHANGED pipeFrame

\* Faulty variant: the tab is counted but the progress is not set.
TabDiscardSettles_NoReport(t) ==
    /\ pipe[t].st = "discard"
    /\ \E ok \in Outcomes :
        /\ faults' = IF ok THEN faults ELSE faults - 1
        /\ pipe' = [pipe EXCEPT ![t].st = "counted",
                                 ![t].fails = IF ok THEN @ ELSE @ \cup {"discard"}]
    /\ importedCount' = importedCount + 1
    /\ UNCHANGED <<pipeFrame, tabWindow, importProgress>>

\* chrome.tabs.discard settles (a rejection is caught by the inner try):
\* importedCount++ and setImportProgress.
TabDiscardSettles(t) ==
    /\ pipe[t].st = "discard"
    /\ \E ok \in Outcomes :
        /\ faults' = IF ok THEN faults ELSE faults - 1
        /\ pipe' = [pipe EXCEPT ![t].st = "counted",
                                 ![t].fails = IF ok THEN @ ELSE @ \cup {"discard"}]
    /\ importedCount' = importedCount + 1
    /\ importProgress' = Progress(importedCount + 1)
    /\ UNCHANGED <<pipeFrame, tabWindow>>

\* Faulty variant: the join resumes as soon as one callback has settled.
BatchSettled_Any == \E j \in 1..Len(CurBatch) : Settled(pipe[CurBatch[j]])

\* Faulty variant: the callbacks rethrow, so Promise.all settles at the
\* first failed one.
BatchSettled_FailFast ==
    \/ \A j \in 1..Len(CurBatch) : Settled(pipe[CurBatch[j]])
    \/ \E j \in 1..Len(CurBatch) : pipe[CurBatch[j]].fails # {}

\* await Promise.all(batch.map(...))
BatchSettled ==
    \E b \in {CurBatch} : \A j \in 1..Len(b) : Settled(pipe[b[j]])

\* Promise.all resolves: setTimeout(resolve, batchDelay) is started.
BatchJoin ==
    /\ pc = "batch"
    /\ BatchSettled
    /\ pc' = "delay"
    /\ timer' = CapturedBatchDelay
    /\ UNCHANGED <<inputs, exportState, settings, w, gi, i, createCalls, winCreateCalls,
                   pipe, batches, batchOf, groupStarts, statusMessage,
                   isImporting, importProgress, targetWindowId, newGroupId,
                   groupIdMap, importedCount, host, faults, targets, delays,
                   groupFails, groupFailSteps, placement>>

\* The timer fires: the next batch, the next partition, or the end.
TimerFires ==
    /\ pc = "delay"
    /\ timer' = NoTimer
    /\ delays' = Min(delays + 1, MaxBatches)
    /\ Goto(BatchAt(w, i + CapturedBatchSize), importProgress)
    /\ UNCHANGED <<inputs, exportState, settings, targetWindowId, newGroupId, groupIdMap,
                   importedCount, host, faults, targets, groupFails,
                   groupFailSteps, placement>>

(* exportTabs *)

importState == <<data, groupsApi, importsLeft, batchSize, batchDelay, isImporting,
                 importProgress, pc, w, targetWindowId, gi, newGroupId, i,
                 groupIdMap, importedCount, pipe, timer, hostWindows,
                 hostGroups, tempTabs, tabWindow, groupWindow, createCalls,
                 winCreateCalls, targets, batches, batchOf, delays,
                 groupStarts, groupFails, groupFailSteps>>

ExportedStatus(n) == [kind |-> "exported", n |-> n]
ExportErrorStatus == [kind |-> "exportError", n |-> 0]

\* The ids of s in ascending order, each once.
RECURSIVE SortedIds(_)
SortedIds(S) ==
    IF S = {} THEN <<>>
    ELSE LET m == CHOOSE x \in S : \A y \in S : x <= y
         IN  <<m>> \o SortedIds(S \ {m})

\* What chrome.tabGroups.query({}) resolves with: the groups the open tabs
\* are in.
OpenGroups ==
    SortedIds({hostTabs[k].groupId : k \in DOMAIN hostTabs} \cap GroupIds)

\* What chrome.windows.getAll() resolves with: the windows of the open tabs.
OpenWindows == SortedIds({hostTabs[k].windowId : k \in DOMAIN hostTabs})

\* v || d
OrElse(v, d) == IF v = Falsy THEN d ELSE v

\* tabs.map(tab => ({ ..., groupId: tab.groupId || -1, windowId: tab.windowId }))
ExportedTabs(ts) ==
    [k \in DOMAIN ts |->
        [windowId |-> ts[k].windowId,
         groupId |-> OrElse(ts[k].groupId, Ungrouped)]]

\* The export ends: the status of the try or the catch block, then finally.
ExportFinish(status) ==
    /\ exportPc' = "done"
    /\ statusMessage' = status
    /\ isExporting' = FALSE

\* The Export button (disabled while exporting): exportTabs up to
\* `await chrome.tabs.query({})`.
ExportTabs ==
    /\ ~isExporting
    /\ exportPc = "idle"
    /\ isExporting' = TRUE
    /\ statusMessage' = NoStatus
    /\ exportPc' = "tabsQuery"
    /\ UNCHANGED <<importState, faults, hostTabs, queriedTabs, queriedGroups,
                   groupsRead, readFails, exportData>>

\* chrome.tabs.query({}) settles; then the tab-groups test and the groups
\* query, or the windows query.  A rejection reaches the catch.
TabsQuerySettles ==
    /\ exportPc = "tabsQuery"
    /\ \E ok \in Outcomes :
        IF ok
        THEN /\ queriedTabs' = hostTabs
             /\ exportPc' = IF groupsApi THEN "groupsQuery" ELSE "windowsGetAll"
             /\ UNCHANGED <<statusMessage, isExporting, faults>>
        ELSE /\ ExportFinish(ExportErrorStatus)
             /\ faults' = faults - 1
             /\ UNCHANGED queriedTabs
    /\ readFails' = IF exportPc' = "done" THEN readFails \cup {"tabs"}
                    ELSE readFails
    /\ UNCHANGED <<importState, hostTabs, queriedGroups, groupsRead,
                   exportData>>

\* chrome.tabGroups.query({}) settles; a rejection is caught and `groups`
\* stays [].  Then the windows query.
GroupsQuerySettles ==
    /\ exportPc = "groupsQuery"
    /\ \E ok \in Outcomes :
        /\ queriedGroups' = IF ok THEN OpenGroups ELSE queriedGroups
        /\ groupsRead' = ok
        /\ readFails' = IF ok THEN readFails ELSE readFails \cup {"groups"}
        /\ faults' = IF ok THEN faults ELSE faults - 1
    /\ exportPc' = "windowsGetAll"
    /\ UNCHANGED <<importState, statusMessage, isExporting, hostTabs,
                   queriedTabs, exportData>>

\* The snapshot handed to the download, from the three answers.
Snapshot(ts, gs, ws) ==
    [tabs |-> ExportedTabs(ts), groups |-> gs, windows |-> ws, made |-> TRUE]

\* Faulty variant: a rejected windows read is caught like the groups read,
\* and the snapshot is saved with no windows.
WindowsGetAllSettles_Caught ==
    /\ exportPc = "windowsGetAll"
    /\ \E ok \in Outcomes :
        /\ exportData' = Snapshot(queriedTabs, queriedGroups,
                                  IF ok THEN OpenWindows ELSE <<>>)
        /\ ExportFinish(ExportedStatus(Len(queriedTabs)))
        /\ faults' = IF ok THEN faults ELSE faults - 1
        /\ readFails' = IF ok THEN readFails ELSE readFails \cup {"windows"}
    /\ UNCHANGED <<importState, hostTabs, queriedTabs, queriedGroups,
                   groupsRead>>

\* chrome.windows.getAll() settles: the snapshot is built and downloaded
\* and the status set.  A rejection reaches the catch.
WindowsGetAllSettles ==
    /\ exportPc = "windowsGetAll"
    /\ \E ok \in Outcomes :
        IF ok
        THEN /\ exportData' = Snapshot(queriedTabs, queriedGroups, OpenWindows)
             /\ ExportFinish(ExportedStatus(Len(queriedTabs)))
             /\ UNCHANGED <<faults, readFails>>
        ELSE /\ ExportFinish(ExportErrorStatus)
             /\ faults' = faults - 1
             /\ readFails' = readFails \cup {"windows"}
             /\ UNCHANGED exportData
    /\ UNCHANGED <<importState, hostTabs, queriedTabs, queriedGroups,
                   groupsRead>>

\* The host between two reads of a capture: the user closes a tab.  A
\* window or group whose last tab closes is gone with it (OpenWindows,
\* OpenGroups).
HostTabCloses ==
    /\ isExporting
    /\ \E k \in DOMAIN hostTabs :
        hostTabs' = SubSeq(hostTabs, 1, k - 1)
                    \o SubSeq(hostTabs, k + 1, Len(hostTabs))
    /\ UNCHANGED <<importState, statusMessage, faults, isExporting, exportPc,
                   queriedTabs, queriedGroups, groupsRead, readFails,
                   exportData>>

\* The host between two reads of a capture: a tab opens.
HostTabOpens ==
    /\ isExporting
    /\ Len(hostTabs) < MaxTabs
    /\ \E t \in HostTab : hostTabs' = Append(hostTabs, t)
    /\ UNCHANGED <<importState, statusMessage, faults, isExporting, exportPc,
                   queriedTabs, queriedGroups, groupsRead, readFails,
                   exportData>>

Next ==
    \/ HandleFileSelect
    \/ FileRead
    \/ WindowSettles
    \/ GroupTabCreateSettles
    \/ GroupTabsGroupSettles
    \/ GroupUpdateSettles
    \/ GroupRemoveSettles
    \/ \E t \in Tabs : TabCreateSettles(t)
    \/ \E t \in Tabs : TabGroupSettles(t)
    \/ \E t \in Tabs : TabMuteSettles(t)
    \/ \E t \in Tabs : TabDiscardSettles(t)
    \/ BatchJoin
    \/ TimerFires

\* The import together with the settings form.
NextUI ==
    \/ Next
    \/ SetBatchSize
    \/ SetBatchDelay

Init == InitWith(Files, MaxFailures)

\* One import of a file of Files, with up to MaxFailures rejected host
\* calls.  importTabs reads the settings of the first render only (see
\* CapturedBatchSize), so the settings form is left to SpecSettings.
Spec == Init /\ [][Next]_vars

\* One import of an export in any index order, on a host that rejects
\* nothing.
InitOrder == InitWith(OrderFiles, 0)
SpecOrder == InitOrder /\ [][Next]_vars

\* The settings form and one import, on a host that rejects nothing.
InitSettings == InitWith(SettingsFiles, 0)
SpecSettings == InitSettings /\ [][NextUI]_vars

\* The export.
NextExport ==
    \/ ExportTabs
    \/ TabsQuerySettles
    \/ GroupsQuerySettles
    \/ WindowsGetAllSettles

\* One export of any open tabs, with up to MaxReadFailures rejected reads;
\* no file is imported.
NoFiles == {[format |-> "ok", tabs |-> <<>>, groups |-> <<>>]}
InitExport ==
    InitHost(NoFiles, MaxReadFailures, SeqsUpTo(HostTab, MaxTabs), 0)
SpecExport == InitExport /\ [][NextExport]_vars

\* One export on a host whose tabs open and close while the capture runs;
\* no host call rejects.
NextExportLive ==
    \/ NextExport
    \/ HostTabCloses
    \/ HostTabOpens

InitExportLive == InitHost(NoFiles, 0, SeqsUpTo(HostTab, MaxTabs), 0)
SpecExportLive == InitExportLive /\ [][NextExportLive]_vars

\* One import of an export whose entries may lack their url, on a host
\* that rejects nothing.
InitUrl == InitWith(UrlFiles, 0)
SpecUrl == InitUrl /\ [][Next]_vars

\* One import of a file whose entries may lack their groupId, or that
\* lacks `groups`, on a host that rejects nothing.
InitGroups == InitWith(GroupFiles, 0)
SpecGroups == InitGroups /\ [][Next]_vars

\* The Batch Size input and one import, with up to MaxFailures rejected
\* host calls.  Every host call that was issued settles, the batch join
\* resumes and the timer fires; the user may never select a file.
NextLive ==
    \/ Next
    \/ SetBatchSize

\* A host call or timer of the import settles.
Settles ==
    \/ FileRead
    \/ WindowSettles
    \/ GroupTabCreateSettles
    \/ GroupTabsGroupSettles
    \/ GroupUpdateSettles
    \/ GroupRemoveSettles
    \/ \E t \in Tabs : TabCreateSettles(t)
    \/ \E t \in Tabs : TabGroupSettles(t)
    \/ \E t \in Tabs : TabMuteSettles(t)
    \/ \E t \in Tabs : TabDiscardSettles(t)
    \/ BatchJoin
    \/ TimerFires

\* While something of the import is due to settle, something does.
Fairness == WF_vars(Settles)

InitLive == InitWith(LiveFiles, MaxFailures)
SpecLive == InitLive /\ [][NextLive]_vars /\ Fairness

\* The settings form and MaxImports imports of one file, one after the
\* other, on a host that rejects nothing.
InitRerun == InitHost(RerunFiles, 0, {<<>>}, MaxImports)
SpecRerun == InitRerun /\ [][NextUI]_vars

(* ------------------------------- claims -------------------------------- *)

Range(f) == {f[k] : k \in DOMAIN f}

\* The group ids of data.groups that some tab of the file refers to.
ReferencedGroups ==
    {g \in Range(data.groups) : \E t \in Tabs : Tab(t).groupId = g}

ImportSucceeded == pc = "done" /\ statusMessage.kind = "ok"

\* C1 as stated: with the tab-groups API present, a finished import has
\* started the recreation sequence (placeholder create + chrome.tabs.group)
\* exactly once for every group id its tabs refer to.
C1_CreatedExactlyOnce ==
    (groupsApi /\ ImportSucceeded) =>
        \A g \in ReferencedGroups : groupStarts[g] = 1

\* Every start of a recreation sequence but the first follows one that
\* failed before the map write; a finished import without such a failure
\* has started exactly one per referenced id; a tab's chrome.tabs.group
\* call passes the id the map holds for the tab's group.
C1_MapState ==
    /\ \A g \in GroupIds :
        /\ groupStarts[g] <= groupFails[g] + 1
        /\ g \in DOMAIN groupIdMap => groupStarts[g] = groupFails[g] + 1
        /\ groupStarts[g] > 0 => groupsApi /\ g \in ReferencedGroups
    /\ (groupsApi /\ ImportSucceeded) =>
        \A g \in ReferencedGroups : groupFails[g] = 0 => groupStarts[g] = 1
    /\ \A t \in Tabs :
        pipe[t].grp # 0 =>
            /\ Tab(t).groupId \in DOMAIN groupIdMap
            /\ pipe[t].grp = groupIdMap[Tab(t).groupId]

\* A mapped id keeps its entry, and no sequence is started for it.
C1_MapStep ==
    \A g \in GroupIds :
        /\ g \in DOMAIN groupIdMap =>
            /\ g \in DOMAIN groupIdMap'
            /\ groupIdMap'[g] = groupIdMap[g]
            /\ groupStarts'[g] = groupStarts[g]

\* C1, amended: a recreation sequence for a group id starts only while the
\* id is unmapped, so every start but the first follows a sequence that
\* failed before the map write, and a run without such a failure starts
\* exactly one per referenced id; every chrome.tabs.group call made for a
\* tab passes the id the map holds for the tab's group; and an entry of
\* groupIdMap, once written, is never overwritten or removed.
C1_GroupResolvedOnce == []C1_MapState /\ [][C1_MapStep]_vars

\* C1 witness: two tabs of different windows refer to one group, whose
\* sequence ran once, and both were handed the same new group id.
C1_Witness ==
    \E t, u \in Tabs :
        /\ Tab(t).windowId # Tab(u).windowId
        /\ Tab(t).groupId = Tab(u).groupId
        /\ pipe[t].grp # 0
        /\ pipe[u].grp = pipe[t].grp
        /\ groupStarts[Tab(t).groupId] = 1

(* C2 *)

\* The batch of tab t has been awaited to its end.
Joined(t) == batchOf[t] # 0 /\ (batchOf[t] < batches \/ pc # "batch")

TabsOfBatch(b) == {t \in Tabs : batchOf[t] = b}
Counted(S) == {t \in S : pipe[t].st = "counted"}

\* C2: every callback of a batch is started with the batch and has run to
\* its end when the batch is joined; in a joined batch of n tabs where one
\* chrome.tabs.create rejected and no other create or mute did, n-1 tabs
\* are counted; importedCount is the number of counted tabs and the final
\* status carries it.
C2_SiblingsCounted ==
    /\ pc = "batch" => \A j \in 1..Len(CurBatch) : pipe[CurBatch[j]].st # "idle"
    /\ \A t \in Tabs : Joined(t) => Settled(pipe[t])
    /\ \A b \in 1..batches :
        (b < batches \/ pc # "batch") =>
            LET S == TabsOfBatch(b)
                F == {t \in S : "create" \in pipe[t].fails}
            IN  (/\ Cardinality(F) = 1
                 /\ \A t \in S \ F : pipe[t].fails \cap {"create", "mute"} = {})
                => Cardinality(Counted(S)) = Cardinality(S) - 1
    /\ importedCount = Cardinality(Counted(Tabs))
    /\ ImportSucceeded => statusMessage.n = importedCount

\* C2 witness: a finished import in which one create of a two-tab batch
\* rejected, its sibling was counted, and the status counts all but one.
C2_Witness ==
    /\ ImportSucceeded
    /\ statusMessage.n = Len(data.tabs) - 1
    /\ \E t, u \in Tabs :
        /\ t # u
        /\ batchOf[t] = batchOf[u]
        /\ "create" \in pipe[t].fails
        /\ pipe[u].st = "counted"

(* C3 *)

\* C3 as stated: an import of a file that passes the format test ends with
\* the success status, whichever host call rejected.
C3_AlwaysSucceeds ==
    (pc = "done" /\ data.format = "ok") => statusMessage.kind = "ok"

(* C4 *)

\* A host-mutating call has been issued: a tab or window create, or any
\* call that follows one.
HostMutated ==
    \/ createCalls # <<>>
    \/ winCreateCalls # <<>>
    \/ hostWindows # 0
    \/ hostGroups # 0
    \/ \E t \in Tabs : pipe[t].st # "idle"
    \/ pc \in {"createWindow", "gCreate", "gGroup", "gUpdate", "gRemove", "batch"}

\* C4: for a file without `tabs`, or whose `tabs` is no array, no
\* host-mutating call is ever issued and the import ends with the error
\* status.
C4_MalformedRejected ==
    data.format \in {"noTabs", "tabsNotArray"} =>
        /\ ~HostMutated
        /\ statusMessage.kind # "ok"
        /\ pc = "done" => statusMessage = ErrorStatus /\ ~isImporting

\* C4 witness: the import of a non-array `tabs` value holding entries has
\* ended with the error status.
C4_Witness ==
    /\ data.format = "tabsNotArray"
    /\ data.tabs # <<>>
    /\ pc = "done"
    /\ statusMessage = ErrorStatus

(* C5 *)

\* C5: when a tab's create call has been issued, every callback of every
\* earlier batch has settled and one timer per earlier batch has fired;
\* while a timer runs no callback is in flight.
C5_BatchesSequential ==
    /\ \A t, u \in Tabs :
        (batchOf[t] # 0 /\ batchOf[u] # 0 /\ batchOf[u] < batchOf[t])
            => Settled(pipe[u])
    /\ \A t \in Tabs : batchOf[t] # 0 => delays >= batchOf[t] - 1
    /\ pc = "delay" => \A t \in Tabs : batchOf[t] # 0 => Settled(pipe[t])
    /\ delays <= batches

\* C5 witness: the second batch of a window is in flight after a first
\* batch of two tabs of that window.
C5_Witness ==
    \E t, u, v \in Tabs :
        /\ u # v
        /\ batchOf[u] = 1
        /\ batchOf[v] = 1
        /\ batchOf[t] = 2
        /\ Tab(t).windowId = Tab(u).windowId
        /\ pipe[t].st = "create"

(* C6 *)

InFlight == {t \in Tabs : pipe[t].st \in {"create", "group", "mute", "discard"}}

\* C6: at most batch-size callbacks are in flight, and none while a window
\* call or a call of the group recreation sequence is awaited.
C6_BoundedInFlight ==
    /\ Cardinality(InFlight) <= CapturedBatchSize
    /\ pc # "batch" => InFlight = {}

\* C6 witness: a full batch is in flight after a group was recreated.
C6_Witness ==
    /\ Cardinality(InFlight) = CapturedBatchSize
    /\ hostGroups > 0

(* C7 *)

Ceil(a, b) == (a + b - 1) \div b

RECURSIVE SumTo(_, _)
SumTo(f, n) == IF n = 0 THEN 0 ELSE f[n] + SumTo(f, n - 1)

\* The batches the partitions of the file need, window by window.
ExpectedBatches ==
    SumTo([wid \in WindowIds |->
              Ceil(Cardinality({t \in Tabs : Tab(t).windowId = wid}),
                   CapturedBatchSize)],
          MaxWindows)

CallsFor(x) == {k \in DOMAIN createCalls : createCalls[k] = x}

\* C7 as stated: a finished import has issued exactly T chrome.tabs.create
\* calls and run ceil(T / batchSize) batches.
C7_TCreatesCeilBatches ==
    ImportSucceeded =>
        /\ Len(createCalls) = Len(data.tabs)
        /\ batches = Ceil(Len(data.tabs), CapturedBatchSize)

\* C7, amended: a finished import has issued exactly one chrome.tabs.create
\* call per tab of the file, plus one placeholder create per group
\* recreation sequence started, and has run, for each window partition of
\* T_p tabs, ceil(T_p / batchSize) batches.
C7_CreatesAndBatches ==
    ImportSucceeded =>
        /\ \A t \in Tabs : Cardinality(CallsFor(t)) = 1
        /\ Cardinality(CallsFor(Placeholder)) = SumTo(groupStarts, MaxGroups)
        /\ batches = ExpectedBatches

\* C7 witness: a finished import with a placeholder create and more
\* batches than ceil(T / batchSize).
C7_Witness ==
    /\ ImportSucceeded
    /\ CallsFor(Placeholder) # {}
    /\ batches > Ceil(Len(data.tabs), CapturedBatchSize)

(* C10 *)

\* C10: the first partition's target is the current window; a finished
\* import of P >= 1 partitions has issued P-1 chrome.windows.create calls,
\* each with focused: false, and the P targets differ pairwise.
C10_OneWindowPerPartition ==
    /\ \A j, k \in DOMAIN targets : j # k => targets[j] # targets[k]
    /\ \A k \in DOMAIN targets : (k = 1) <=> (targets[k] = CurrentWindow)
    /\ \A k \in DOMAIN winCreateCalls : ~winCreateCalls[k].focused
    /\ (ImportSucceeded /\ data.tabs # <<>>) =>
        /\ Len(targets) = Len(WindowKeys(data.tabs))
        /\ Len(winCreateCalls) = Len(WindowKeys(data.tabs)) - 1
        /\ hostWindows = Len(winCreateCalls)

\* C10 witness: a finished import of two partitions.
C10_Witness ==
    /\ ImportSucceeded
    /\ Len(WindowKeys(data.tabs)) = 2
    /\ Len(winCreateCalls) = 1

(* C8 *)

\* C8 as stated: the batch being awaited holds batchSize tabs (or the
\* partition's remaining tabs, if fewer), batchSize being the setting held
\* while the import runs, and the timer between batches runs for the
\* batchDelay setting.
C8_SettingsUsed ==
    /\ pc = "batch" =>
        Cardinality(TabsOfBatch(batches))
            = Min(batchSize, Len(WindowTabs(data, w)) - i)
    /\ pc = "delay" => timer = batchDelay

(* C9 *)

\* C9: of two create calls for tabs of one window, the one issued first is
\* for the tab whose index is not greater.
C9_IndexOrder ==
    \A a, b \in DOMAIN createCalls :
        (/\ a < b
         /\ createCalls[a] # Placeholder
         /\ createCalls[b] # Placeholder
         /\ Tab(createCalls[a]).windowId = Tab(createCalls[b]).windowId)
        => Tab(createCalls[a]).index <= Tab(createCalls[b]).index

\* C9 witness: a tab that the file lists before another tab of its window,
\* with a greater index, was created in a later batch than that tab.
C9_Witness ==
    \E t, u \in Tabs :
        /\ t < u
        /\ Tab(t).windowId = Tab(u).windowId
        /\ Tab(t).index > Tab(u).index
        /\ batchOf[u] # 0
        /\ batchOf[u] < batchOf[t]

(* C19 *)

\* C19 as stated: for a file in which some entry of `tabs` has no url, no
\* host-mutating call is ever issued and the import ends with the error
\* status.
C19_MissingUrlRejected ==
    (\E t \in Tabs : Tab(t).url = NoUrl) =>
        /\ ~HostMutated
        /\ statusMessage.kind # "ok"
        /\ pc = "done" => statusMessage = ErrorStatus

(* C11 *)

\* The number of the partition tab t belongs to.
PartitionOf(t) ==
    CHOOSE k \in 1..Len(WindowKeys(data.tabs)) :
        WindowKeys(data.tabs)[k] = Tab(t).windowId

\* C11 as stated: when the import has finished, every tab it created is in
\* the target window of its own partition, and two tabs that came from
\* different windows are in different windows.
C11_WindowsMaintained ==
    pc = "done" =>
        /\ \A t \in Tabs :
            tabWindow[t] # NoWindow => tabWindow[t] = targets[PartitionOf(t)]
        /\ \A t, u \in Tabs :
            (/\ tabWindow[t] # NoWindow
             /\ tabWindow[u] # NoWindow
             /\ Tab(t).windowId # Tab(u).windowId)
            => tabWindow[t] # tabWindow[u]

(* C12 *)

\* C12 as stated: a tab whose chrome.tabs.create succeeded has had
\* chrome.tabs.discard issued for it when its callback has settled.
C12_DiscardAttempted ==
    \A t \in Tabs :
        (Settled(pipe[t]) /\ "create" \notin pipe[t].fails)
            => "discard" \in pipe[t].calls

(* C13 *)

\* The tabs none of whose host calls rejected.
Flawless(S) == {t \in S : Settled(pipe[t]) /\ pipe[t].fails = {}}

\* C13 as stated: the count of a finished import is the number of tabs all
\* of whose operations (create, group assignment, mute, discard) succeeded.
C13_AnyFailureExcluded ==
    ImportSucceeded => statusMessage.n = Cardinality(Flawless(Tabs))

\* C13, amended: a settled tab is counted exactly if neither its
\* chrome.tabs.create nor its mute update rejected; a rejected group
\* assignment or discard is logged and the tab is counted all the same;
\* the count of a finished import is the number of tabs whose create and
\* mute calls succeeded.
C13_CreateOrMuteFailureExcluded ==
    /\ \A t \in Tabs :
        Settled(pipe[t]) =>
            (pipe[t].st = "counted"
                <=> pipe[t].fails \cap {"create", "mute"} = {})
    /\ importedCount = Cardinality(Counted(Tabs))
    /\ ImportSucceeded =>
        statusMessage.n =
            Cardinality({t \in Tabs : pipe[t].fails \cap {"create", "mute"} = {}})

\* C13 witness: a finished import that counts every tab of the file, one
\* of them a tab whose discard rejected.
C13_Witness ==
    /\ ImportSucceeded
    /\ statusMessage.n = Len(data.tabs)
    /\ \E t \in Tabs : "discard" \in pipe[t].fails /\ pipe[t].st = "counted"

(* C14 *)

\* The tabs of the partition being processed whose create has succeeded.
CreatedHere ==
    {t \in Tabs : /\ PartitionOf(t) = w
                  /\ pipe[t].st \in {"group", "mute", "discard", "counted",
                                     "muteFailed"}}

\* A call of a group recreation sequence rejects in this step.
GroupStepFails == groupFailSteps' # groupFailSteps

C14_NotAborted == GroupStepFails => pc' \in {"gCreate", "batch"}

\* C14 as stated: after a rejection at any step of a group's recreation
\* sequence (placeholder create, chrome.tabs.group, chrome.tabGroups.update,
\* placeholder remove) the import goes on, the map has no entry for the
\* group, and every tab that refers to it is created without a group
\* assignment and counted.
C14_FailedGroupUnmapped ==
    /\ [](\A g \in GroupIds :
            groupFailSteps[g] # {} =>
                /\ g \notin DOMAIN groupIdMap
                /\ \A t \in Tabs : Tab(t).groupId = g =>
                    /\ "group" \notin pipe[t].calls
                    /\ ImportSucceeded =>
                        (pipe[t].fails = {} => pipe[t].st = "counted"))
    /\ [][C14_NotAborted]_vars

\* Within the batches of a partition a created tab was handed to a group
\* exactly if the map, as the group loop of the partition left it, has an
\* entry for its group; a finished import has issued a create for every tab.
C14_State ==
    /\ pc \in {"batch", "delay"} =>
        \A t \in CreatedHere : ("group" \in pipe[t].calls) <=> WantsGroup(t)
    /\ ImportSucceeded =>
        \A t \in Tabs :
            /\ "create" \in pipe[t].calls
            /\ pipe[t].fails \cap {"create", "mute"} = {}
                => pipe[t].st = "counted"

\* A rejection before the map write leaves the map as it was; a rejection
\* of the placeholder's remove comes after the write and keeps the entry;
\* either way the import goes on with the next group or the first batch.
C14_Step ==
    /\ C14_NotAborted
    /\ GroupStepFails => groupIdMap' = groupIdMap
    /\ groupFails' # groupFails => CurGroup \notin DOMAIN groupIdMap'
    /\ (GroupStepFails /\ groupFails' = groupFails) =>
        CurGroup \in DOMAIN groupIdMap'

\* C14, amended: a rejection of the placeholder create, of chrome.tabs.group
\* or of chrome.tabGroups.update does not abort the import and that attempt
\* writes no map entry, so the tabs of the partition that refer to the
\* group are created without a group assignment and counted; a rejection of
\* the placeholder's remove comes after the map write, the entry stays and
\* the tabs are assigned to the new group; a tab is handed to a group
\* exactly if the map holds its group id when the tab is created.
C14_GroupFailureTolerated == []C14_State /\ [][C14_Step]_vars

\* C14 witness: a finished import in which a group's sequence failed before
\* the map write, the group stayed unmapped, and a tab referring to it was
\* created without a group assignment and counted.
C14_Witness ==
    /\ ImportSucceeded
    /\ \E t \in Tabs :
        /\ Tab(t).groupId # Ungrouped
        /\ groupFails[Tab(t).groupId] = 1
        /\ Tab(t).groupId \notin DOMAIN groupIdMap
        /\ "group" \notin pipe[t].calls
        /\ pipe[t].st = "counted"

(* C15 *)

C15_InRange ==
    importProgress # NoProgress =>
        /\ isImporting
        /\ 0 <= importProgress.current
        /\ importProgress.current <= importProgress.total
        /\ importProgress.total = Len(data.tabs)

C15_NeverDecreases ==
    (importProgress # NoProgress /\ importProgress' # NoProgress) =>
        importProgress'.current >= importProgress.current

\* C15: while an import is in flight the reported progress has
\* 0 <= current <= total with total the number of tabs of the file, and
\* from one report to the next current does not decrease, however the
\* callbacks of a batch interleave.
C15_ProgressMonotone == []C15_InRange /\ [][C15_NeverDecreases]_vars

\* C15 witness: of two tabs of one batch the second has been counted and
\* reported while the first is still in flight.
C15_Witness ==
    /\ pc = "batch"
    /\ importProgress # NoProgress
    /\ importProgress.current = 1
    /\ \E t, u \in Tabs :
        /\ t < u
        /\ batchOf[t] = batchOf[u]
        /\ pipe[t].st = "create"
        /\ pipe[u].st = "counted"

(* C16 *)

\* The tabs of the batches started so far, and of the batches joined.
Started == {t \in Tabs : batchOf[t] # 0}
JoinedTabs == {t \in Tabs : Joined(t)}

\* C16 as stated: the progress moves only when a batch has settled, by the
\* number of tabs of the batch: while a batch is awaited current is the
\* number of tabs of the earlier batches, and once it is joined current is
\* the number of tabs of all batches so far, so after the last batch it is
\* the total.
C16_AdvancesPerBatch ==
    /\ pc = "batch" => importProgress.current = Cardinality(JoinedTabs)
    /\ pc = "delay" => importProgress.current = Cardinality(Started)

C16_State ==
    /\ pc \in {"batch", "delay"} =>
        /\ importProgress.current = importedCount
        /\ importProgress.current = Cardinality(Counted(Tabs))
    /\ pc = "delay" =>
        importProgress.current =
            Cardinality(Started)
              - Cardinality({t \in Started :
                                pipe[t].fails \cap {"create", "mute"} # {}})

C16_Step ==
    (importProgress # NoProgress /\ importProgress' # NoProgress
        /\ importProgress' # importProgress) =>
        /\ pc = "batch"
        /\ importProgress'.current = importProgress.current + 1
        /\ \E t \in Tabs :
            /\ pipe[t].st = "discard"
            /\ pipe'[t].st = "counted"

\* C16, amended: the progress is reported once for each tab whose callback
\* reaches its end, when its discard has settled, and advances current by
\* one; current is the number of tabs counted so far, so when the last
\* batch has settled it is the number of tabs of the file less those whose
\* create or mute update rejected, and the total only if none did.
C16_AdvancesPerCountedTab == []C16_State /\ [][C16_Step]_vars

\* C16 witness: the last batch has settled and, a create having rejected,
\* current is one short of the total.
C16_Witness ==
    /\ pc = "delay"
    /\ Started = Tabs
    /\ \E t \in Tabs : "create" \in pipe[t].fails
    /\ importProgress.current = importProgress.total - 1

(* C17 *)

\* C17: a progress value is held only while an import is in flight, and
\* when the import has ended, with the success status or with the error
\* status of a rejected file or a thrown error, isImporting is false and
\* the progress is null.
C17_ProgressOnlyInFlight ==
    /\ importProgress # NoProgress => isImporting
    /\ isImporting <=> pc \notin {"idle", "done"}
    /\ pc = "done" =>
        /\ ~isImporting
        /\ importProgress = NoProgress
        /\ statusMessage.kind \in {"ok", "error"}

\* C17 witness: an import that had reported a counted tab has ended with
\* the error status (a window call rejected), and the progress is null.
C17_Witness ==
    /\ pc = "done"
    /\ statusMessage = ErrorStatus
    /\ importedCount > 0
    /\ importProgress = NoProgress
    /\ ~isImporting

(* C18 *)

\* C18 as stated: an import that has run B >= 1 batches has waited B-1
\* delays, none after its last batch.
C18_NoDelayAfterLastBatch ==
    (ImportSucceeded /\ batches > 0) => delays = batches - 1

(* C20 *)

\* The group enumeration was unavailable or failed.
GroupsNotRead == ~groupsRead

\* C20 as stated: a snapshot produced when the tab-group enumeration was
\* unavailable or failed has an empty `groups` list and every tab of it
\* carries groupId = -1.
C20_NoGroupsAllUngrouped ==
    (exportData.made /\ GroupsNotRead) =>
        /\ exportData.groups = <<>>
        /\ \A k \in DOMAIN exportData.tabs :
            exportData.tabs[k].groupId = Ungrouped


\* The snapshot refers to nothing it does not hold.
Closed(x) ==
    \A k \in DOMAIN x.tabs :
        /\ x.tabs[k].windowId \in Range(x.windows)
        /\ x.tabs[k].groupId = Ungrouped \/ x.tabs[k].groupId \in Range(x.groups)

\* C21: every snapshot exportTabs produces is referentially closed: each
\* exported tab's windowId is the id of an exported window and its groupId
\* is -1 or the id of an exported group, also when tabs open or close
\* between the three reads of the capture.
C21_ReferentiallyClosed == exportData.made => Closed(exportData)

ExportFailed == exportPc = "done" /\ statusMessage = ExportErrorStatus
ExportSaved ==
    /\ exportPc = "done"
    /\ statusMessage = ExportedStatus(Len(queriedTabs))
    /\ exportData.made

\* C22 as stated: a capture any of whose three reads rejected ends in the
\* error outcome with no snapshot file.
C22_AnyReadFailureFatal ==
    (exportPc = "done" /\ readFails # {}) => (ExportFailed /\ ~exportData.made)

\* C22, amended: a capture whose tabs read or windows read rejected ends in
\* the error outcome with no snapshot file; a rejected groups read is
\* caught, and a snapshot saved after it has an empty groups list; a
\* snapshot is saved only when the tabs read and the windows read succeeded,
\* and a finished capture has either failed or saved its snapshot.
C22_TabOrWindowFailureFatal ==
    /\ (exportPc = "done" /\ readFails \cap {"tabs", "windows"} # {}) =>
            (ExportFailed /\ ~exportData.made)
    /\ exportData.made =>
            /\ ExportSaved
            /\ readFails \subseteq {"groups"}
            /\ "groups" \in readFails => exportData.groups = <<>>
    /\ exportPc = "done" => (ExportFailed \/ ExportSaved)
    /\ (exportPc = "done" /\ readFails \subseteq {"groups"}) => ExportSaved

\* A capture of open tabs whose groups read rejected and was caught, and
\* whose windows read then rejected: it failed, with nothing saved.
C22_Witness ==
    /\ ExportFailed
    /\ queriedTabs # <<>>
    /\ readFails = {"groups", "windows"}

\* C23: when the import has finished, every placeholder tab created for a
\* group recreation has been removed, whichever step of the sequence failed.
C23_NoPlaceholderLeft ==
    pc = "done" => \A k \in DOMAIN tempTabs : ~tempTabs[k].open

InGroupSequence == pc \in {"gCreate", "gGroup", "gUpdate", "gRemove"}

\* The tabs whose chrome.tabs.group call names the new group g.
Handed(g) == {t \in Tabs : pipe[t].grp = g}

C27_State ==
    \* the remove is issued with the mapping stored
    /\ pc = "gRemove" =>
        /\ CurGroup \in DOMAIN groupIdMap
        /\ groupIdMap[CurGroup] = newGroupId
        /\ tempTabs[Len(tempTabs)] = [open |-> TRUE, group |-> newGroupId]
    \* while a recreation sequence runs no tab pipeline does, and no tab
    \* has been handed to the group being made
    /\ InGroupSequence => InFlight = {}
    /\ pc \in {"gUpdate", "gRemove"} => Handed(newGroupId) = {}
    \* a removed placeholder was the one member of a mapped group
    /\ \A k \in DOMAIN tempTabs :
        ~tempTabs[k].open =>
            /\ tempTabs[k].group # 0
            /\ tempTabs[k].group \in Range(groupIdMap)
    \* a tab is handed the stored mapping of its groupId, looked up with
    \* has() only
    /\ \A t \in Tabs :
        pipe[t].grp # 0 =>
            /\ Tab(t).groupId \in DOMAIN groupIdMap
            /\ pipe[t].grp = groupIdMap[Tab(t).groupId]

C27_Step ==
    \A k \in DOMAIN tempTabs :
        (tempTabs[k].open /\ ~tempTabs'[k].open) =>
            /\ pc = "gRemove"
            /\ k = Len(tempTabs)
            /\ Handed(tempTabs[k].group)' = {}
            /\ GroupEmpty(tempTabs[k].group)'

\* C27: the placeholder of a recreated group is removed after the mapping
\* is stored and before any tab is handed to the new group, so the group has
\* no member tab from the removal until the first tab is assigned to it; a
\* tab is handed the stored mapping on the strength of has() alone.
C27_PlaceholderRemovedBeforeUse == []C27_State /\ [][C27_Step]_vars

\* The placeholder of a new group is removed, the group has no member, and
\* a tab's chrome.tabs.group call naming that group is in flight.
C27_Witness ==
    \E t \in Tabs :
        /\ pipe[t].st = "group"
        /\ GroupEmpty(pipe[t].grp)
        /\ \E k \in DOMAIN tempTabs :
            tempTabs[k] = [open |-> FALSE, group |-> pipe[t].grp]

\* The tabs of the partition being processed.
TabsOfPartition(k) == {t \in Tabs : PartitionOf(t) = k}

\* The recreation of g has been gone through: g is mapped, or a sequence
\* for it has run and failed.
Resolved(g) == g \in DOMAIN groupIdMap \/ groupFails[g] > 0

C24_State ==
    \* the group loop of a partition runs before any tab of the partition
    \* is created, and with no pipeline in flight
    /\ InGroupSequence =>
        /\ \A t \in TabsOfPartition(w) : batchOf[t] = 0
        /\ \A t \in Tabs : pipe[t].st \notin {"create", "group", "mute", "discard"}
    \* once the batches of a partition run, each of its groups is resolved
    /\ (groupsApi /\ pc \in {"batch", "delay"}) =>
        \A j \in DOMAIN WindowGroups(data, w) :
            Resolved(WindowGroups(data, w)[j])

C24_Step ==
    /\ groupIdMap' # groupIdMap =>
        /\ pc = "gUpdate"
        /\ InFlight = {}
        /\ InFlight' = {}
        /\ DOMAIN groupIdMap' = DOMAIN groupIdMap \cup {CurGroup}
    /\ groupStarts' # groupStarts =>
        /\ pc' = "gCreate"
        /\ InFlight = {}
        \* one sequence at a time: the one before has ended, in its
        \* remove or in its catch
        /\ pc \in {"gCreate", "gGroup", "gUpdate"} => faults' < faults

CreateOk(t) == tabWindow[t] # NoWindow

\* The mute update of entry t, if the entry asks for one, has succeeded.
MuteOk(t) ==
    Tab(t).muted => ("mute" \in pipe[t].calls /\ "mute" \notin pipe[t].fails)

SnapshotCreates == {k \in DOMAIN createCalls : createCalls[k] # Placeholder}

C26_State ==
    /\ pc = "done" =>
        importedCount = Cardinality({t \in Tabs : CreateOk(t) /\ MuteOk(t)})
    /\ ImportSucceeded => statusMessage.n = importedCount
    /\ \A t \in Tabs :
        (Settled(pipe[t]) /\ pipe[t].fails \subseteq {"group", "discard"}) =>
            pipe[t].st = "counted"
    /\ importedCount <= Cardinality({t \in Tabs : CreateOk(t)})
    /\ importedCount <= Cardinality(SnapshotCreates)

\* The count moves by one, when the pipeline of a created tab ends; no step
\* of a group recreation sequence moves it.
C26_Step ==
    importedCount' # importedCount =>
        /\ importedCount' = importedCount + 1
        /\ pc = "batch"
        /\ tempTabs' = tempTabs
        /\ \E t \in Tabs :
            /\ CreateOk(t) /\ MuteOk(t)
            /\ pipe[t].st = "discard"
            /\ pipe'[t].st = "counted"

\* C26: the final count is the number of snapshot tabs whose
\* chrome.tabs.create succeeded and, for a muted tab, whose mute update
\* succeeded too; a rejected group assignment or discard does not lower it,
\* no placeholder tab is counted, and the count is never above the number of
\* snapshot tabs created.
C26_CountIsCreatedAndMuted == []C26_State /\ [][C26_Step]_vars

\* A finished import that made a placeholder, created every tab of the file
\* and counts all of them but one, whose mute update rejected.
C26_Witness ==
    /\ ImportSucceeded
    /\ tempTabs # <<>>
    /\ \A t \in Tabs : CreateOk(t)
    /\ \E t \in Tabs : "mute" \in pipe[t].fails
    /\ statusMessage.n = Len(data.tabs) - 1
    /\ statusMessage.n >= 1

\* A run of importTabs is between its first statement and its finally.
RunInFlight == pc \notin {"idle", "done"}

C28_State ==
    \* the flag that disables the inputs is up for as long as a run lasts
    /\ isImporting <=> RunInFlight
    \* a run that has ended has left no host call and no timer behind
    /\ ~isImporting => (InFlight = {} /\ timer = NoTimer)

C28_Step ==
    \* a run starts only when none is in flight
    /\ pc' = "readFile" =>
        /\ ~isImporting
        /\ ~RunInFlight
        /\ InFlight = {}
    \* the settings and the file are frozen while a run lasts
    /\ isImporting =>
        /\ batchSize' = batchSize
        /\ batchDelay' = batchDelay
        /\ data' = data
        /\ importsLeft' = importsLeft
    \* the progress of a run is not reset or overwritten by another start
    /\ (isImporting /\ importProgress # NoProgress /\ isImporting') =>
        /\ importProgress' # NoProgress
        /\ importProgress'.current >= importProgress.current

NamesNoGroup(t) ==
    \/ Tab(t).groupId = NoGroupId
    \/ Tab(t).groupId = Ungrouped
    \/ Tab(t).groupId \notin Range(data.groups)

\* The partitions entered so far.
Entered == 1..Min(w, Len(WindowKeys(data.tabs)))

C29_State ==
    \* a recreation sequence has run only for a group of the file that a
    \* tab of a partition entered so far refers to
    /\ \A g \in GroupIds :
        groupStarts[g] > 0 =>
            /\ g \in Range(data.groups)
            /\ \E t \in Tabs : Tab(t).groupId = g /\ PartitionOf(t) \in Entered
    \* the host calls of the group loop are those of the sequences started
    /\ Cardinality(CallsFor(Placeholder)) <= Cardinality({g \in GroupIds : groupStarts[g] > 0})
    /\ Len(tempTabs) <= Cardinality(CallsFor(Placeholder))
    /\ hostGroups <= Len(tempTabs)
    \* a tab that names no group of the file gets no group call, and is
    \* counted when its pipeline has ended
    /\ \A t \in Tabs :
        NamesNoGroup(t) =>
            /\ "group" \notin pipe[t].calls
            /\ pipe[t].grp = 0
            /\ Joined(t) => pipe[t].st = "counted"
    /\ ImportSucceeded =>
        \A t \in Tabs : NamesNoGroup(t) => (CreateOk(t) /\ pipe[t].st = "counted")

\* A sequence starts for a group that a tab of the partition being
\* processed refers to.
C29_Step ==
    \A g \in GroupIds :
        groupStarts'[g] # groupStarts[g] =>
            \E t \in Tabs :
                /\ Tab(t).groupId = g
                /\ WindowKeys(data.tabs)[w'] = Tab(t).windowId

\* C29: a group of the file is recreated only if a tab of the partition
\* being processed refers to its id; a group no tab refers to causes no host
\* call; and a tab whose groupId is missing, is -1 or is the id of no entry
\* of `groups` is created without a group assignment and counted.
C29_OnlyReferencedGroups == []C29_State /\ [][C29_Step]_vars

\* A finished import of a file with one group: a tab without groupId and a
\* tab of another window that refers to the group; the group was recreated
\* once, in the second partition, and both tabs are counted.
C29_Witness ==
    /\ ImportSucceeded
    /\ data.groups # <<>>
    /\ \E t, u \in Tabs :
        /\ Tab(t).groupId = NoGroupId
        /\ pipe[t].st = "counted"
        /\ PartitionOf(t) = 1
        /\ PartitionOf(u) = 2
        /\ pipe[u].grp # 0
        /\ pipe[u].st = "counted"
        /\ groupStarts[Tab(u).groupId] = 1
        /\ Len(tempTabs) = 1

\* The file has a `tabs` array with entries and no `groups` array.
LacksGroups == data.format = "noGroups" /\ data.tabs # <<>>

\* Nothing has been created on the host for this import.
NothingCreated ==
    /\ createCalls = <<>>
    /\ winCreateCalls = <<>>
    /\ hostWindows = 0
    /\ hostGroups = 0
    /\ tempTabs = <<>>
    /\ \A t \in Tabs : ~CreateOk(t)

\* C30: with the tab-groups API present, the import of a file that has a
\* `tabs` array (with entries, so that there is a first partition) and no
\* `groups` array ends in the error outcome while the first partition is
\* processed, before any tab, group or window is created; with the API
\* absent the same file is imported in full, every tab ungrouped.
C30_MissingGroupsArray ==
    /\ (LacksGroups /\ groupsApi) =>
        /\ pc \in {"idle", "readFile", "getCurrent", "done"}
        /\ NothingCreated
        /\ pc = "done" =>
            /\ statusMessage = ErrorStatus
            /\ w = 1
            /\ targets = <<CurrentWindow>>
    /\ (LacksGroups /\ ~groupsApi /\ pc = "done") =>
        /\ statusMessage = OkStatus(Len(data.tabs))
        /\ hostGroups = 0
        /\ tempTabs = <<>>
        /\ \A t \in Tabs :
            /\ CreateOk(t)
            /\ pipe[t].st = "counted"
            /\ "group" \notin pipe[t].calls

\* With the API present, the import of a file without `groups` whose tabs
\* come from two windows and refer to a group has ended in the error
\* outcome.
C30_Witness ==
    /\ LacksGroups
    /\ groupsApi
    /\ pc = "done"
    /\ statusMessage = ErrorStatus
    /\ Len(WindowKeys(data.tabs)) = 2
    /\ \E t \in Tabs : Tab(t).groupId # Ungrouped

\* importTabs has reached its end state.
ImportEnded ==
    /\ pc = "done"
    /\ ~isImporting
    /\ importProgress = NoProgress
    /\ statusMessage.kind \in {"ok", "error"}

\* C25: an import that has started ends: if every host call and every delay
\* timer settles, importTabs reaches its end state (isImporting false, a
\* final status set), whatever the file and whatever value the Batch Size
\* field holds.
C25_ImportEnds == isImporting ~> ImportEnded

\* An import that went through two batches has ended with the Batch Size
\* field holding 0.
C25_Witness ==
    /\ ImportEnded
    /\ statusMessage.kind = "ok"
    /\ batchSize = 0
    /\ batches >= 2

====
